---- MODULE Spec2Model ----
(***************************************************************************)
(* Model of src/libs/moelist/index.ts: ArchiveInfoReader (grouping of a    *)
(* dropped batch into archives, the three readers, the cached unrar wasm   *)
(* payload and the asynchronous open) and MoelistFormatter (size tiers and *)
(* the three report styles).                                               *)
(*                                                                         *)
(* A JavaScript string is a sequence of one-character strings; a string     *)
(* literal of the source that is only ever concatenated is kept as one      *)
(* element (a chunk).  A JavaScript array, and a Map or Set in its          *)
(* insertion order, is a sequence.                                          *)
(***************************************************************************)
EXTENDS Integers, Sequences, FiniteSets, TLC

VARIABLES
  \* the grouping pipeline: preprocess, then one reader per archive
  files, stage, archives, opened, listings, infos,
  \* MoelistFormatter.getSizeType on two byte counts
  sizeA, sizeB, tierA, tierB,
  \* MoelistFormatter.get*Style
  rinfos, groupSep, style, out,
  \* the asynchronous side of ArchiveInfoReader
  wasmBinary, inits, wasmWrites, ext

pipeVars == <<files, stage, archives, opened, listings, infos>>
sizeVars == <<sizeA, sizeB, tierA, tierB>>
renderVars == <<rinfos, groupSep, style, out>>
asyncVars == <<wasmBinary, inits, wasmWrites, ext>>
vars == <<pipeVars, sizeVars, renderVars, asyncVars>>

----------------------------------------------------------------------------
\* Bounds of the model.

\* the longest dropped batch
MaxFiles == 3
\* the longest list of ArchiveInfo handed to a formatter
MaxInfos == 3
\* the number of ArchiveInfoReader.open calls in flight
MaxOpens == 2
\* byte counts are sampled within this distance of each tier threshold
Delta == 1

----------------------------------------------------------------------------
\* String.prototype functions, as the source uses them.

Range(s) == { s[i] : i \in 1..Len(s) }

\* s.endsWith(suf)
EndsWith(s, suf) ==
  /\ Len(suf) <= Len(s)
  /\ SubSeq(s, Len(s) - Len(suf) + 1, Len(s)) = suf

\* s.startsWith(pre)
StartsWith(s, pre) ==
  /\ Len(pre) <= Len(s)
  /\ SubSeq(s, 1, Len(pre)) = pre

\* s.split(sep) for a one-character separator: the pieces between the
\* separators, in order; never empty, '' gives ['']
Split(s, sep) ==
  LET at == { i \in 1..Len(s) : s[i] = sep }
      n == Cardinality(at)
      \* the position of the k-th separator; 0 and Len(s) + 1 bracket them
      pos(k) == IF k = 0 THEN 0
                ELSE IF k = n + 1 THEN Len(s) + 1
                ELSE CHOOSE p \in at : Cardinality({ q \in at : q <= p }) = k
  IN [k \in 1..(n + 1) |-> SubSeq(s, pos(k - 1) + 1, pos(k) - 1)]

\* array.pop() as an expression: the last element
Pop(a) == a[Len(a)]

\* `if (ext)`: the empty string is falsy
Truthy(s) == Len(s) > 0

\* Set.prototype.add on a Set kept in insertion order
SetAdd(set, x) == IF x \in Range(set) THEN set ELSE Append(set, x)

RECURSIVE SumSizes(_, _)
\* files.reduce((sum, file) => sum + file.size, 0)
SumSizes(fs, i) ==
  IF i > Len(fs) THEN 0 ELSE fs[i].size + SumSizes(fs, i + 1)

----------------------------------------------------------------------------
\* The names, paths and listings the inputs are drawn from.

ZipSuffix == <<".", "z", "i", "p">>
RarSuffix == <<".", "r", "a", "r">>

\* a FileWithPath; hasPath = FALSE is `path === undefined`
File(name, size, hasPath, path) ==
  [name |-> name, size |-> size, hasPath |-> hasPath, path |-> path]

SampleFiles ==
  { File(<<"a", ".", "z", "i", "p">>, 1500, TRUE,
         <<"/", "a", "/", "a", ".", "z", "i", "p">>),
    File(<<"b", ".", "r", "a", "r">>, 700, FALSE, <<>>),
    File(<<"x", ".", "m", "d">>, 10, TRUE, <<"/", "a", "/", "x", ".", "m", "d">>),
    File(<<"y", ".", "m", "d">>, 20, TRUE,
         <<"/", "a", "/", "s", "/", "y", ".", "m", "d">>),
    File(<<"R", "M">>, 5, TRUE, <<"/", "a", "/", "s", "/", "s", "/", "R", "M">>),
    File(<<"R", "M">>, 7, TRUE, <<"/", "b", "/", "s", "/", "t", "/", "R", "M">>),
    File(<<"x", ".", "m", "d">>, 10, TRUE, <<"x", ".", "m", "d">>),
    File(<<"n", ".">>, 3, FALSE, <<>>),
    File(<<"n", ".">>, 3, TRUE, <<"/", "n", ".">>) }

\* Object.keys(zip.files) of a loaded zip
ZipIndexes ==
  { <<>>,
    << <<"d", "/">>, <<"d", "/", "r", ".", "m", "d">> >>,
    << <<"R", "M">>, <<"d", ".", "v", "/", "x">>, <<"n", ".">> >> }

\* extractor.getFileList().fileHeaders of a rar
Header(name, directory) == [name |-> name, directory |-> directory]

RarLists ==
  { <<>>,
    << Header(<<"d">>, TRUE), Header(<<"d", "/", "r", ".", "m", "d">>, FALSE) >>,
    << Header(<<"R", "M">>, FALSE), Header(<<"d", ".", "v">>, TRUE) >> }

----------------------------------------------------------------------------
\* ArchiveInfoReader.preprocess

Archive(name, size, type, fs) ==
  [name |-> name, size |-> size, type |-> type, files |-> fs]

RECURSIVE ClassifyLoopKeepsZip(_, _, _, _)
\* a first loop that also leaves a zip file among the others
ClassifyLoopKeepsZip(fs, i, arch, others) ==
  IF i > Len(fs) THEN [archives |-> arch, others |-> others]
  ELSE IF EndsWith(fs[i].name, ZipSuffix)
    THEN ClassifyLoopKeepsZip(fs, i + 1,
           Append(arch, Archive(fs[i].name, fs[i].size, "zip", <<fs[i]>>)),
           Append(others, fs[i]))
  ELSE IF EndsWith(fs[i].name, RarSuffix)
    THEN ClassifyLoopKeepsZip(fs, i + 1,
           Append(arch, Archive(fs[i].name, fs[i].size, "rar", <<fs[i]>>)), others)
  ELSE ClassifyLoopKeepsZip(fs, i + 1, arch, Append(others, fs[i]))

RECURSIVE ClassifyLoop(_, _, _, _)
\* the first loop: zip and rar files become archives, the rest go to others
ClassifyLoop(fs, i, arch, others) ==
  IF i > Len(fs) THEN [archives |-> arch, others |-> others]
  ELSE IF EndsWith(fs[i].name, ZipSuffix)
    THEN ClassifyLoop(fs, i + 1,
           Append(arch, Archive(fs[i].name, fs[i].size, "zip", <<fs[i]>>)), others)
  ELSE IF EndsWith(fs[i].name, RarSuffix)
    THEN ClassifyLoop(fs, i + 1,
           Append(arch, Archive(fs[i].name, fs[i].size, "rar", <<fs[i]>>)), others)
  ELSE ClassifyLoop(fs, i + 1, arch, Append(others, fs[i]))

\* `!file.path || !file.path.startsWith('/')`
Ungroupable(file) ==
  \/ ~file.hasPath
  \/ ~Truthy(file.path)
  \/ ~StartsWith(file.path, <<"/">>)

\* folders.has(folder), on the Map kept as a sequence of [key, files] entries
MapHas(map, key) == \E k \in 1..Len(map) : map[k].key = key

\* a Map that puts a new key before the keys it holds
MapPushFront(map, key, file) ==
  LET m == IF MapHas(map, key) THEN map
           ELSE <<[key |-> key, files |-> <<>>]>> \o map
  IN [k \in 1..Len(m) |->
        IF m[k].key = key
        THEN [key |-> key, files |-> Append(m[k].files, file)]
        ELSE m[k]]

\* folders.set(folder, []) when absent, then folders.get(folder)?.push(file)
MapPush(map, key, file) ==
  LET m == IF MapHas(map, key) THEN map
           ELSE Append(map, [key |-> key, files |-> <<>>])
  IN [k \in 1..Len(m) |->
        IF m[k].key = key
        THEN [key |-> key, files |-> Append(m[k].files, file)]
        ELSE m[k]]

RECURSIVE FolderLoop(_, _, _)
\* the second loop: group the remaining files by paths[1]
FolderLoop(others, i, folders) ==
  IF i > Len(others) THEN folders
  ELSE IF Ungroupable(others[i]) THEN FolderLoop(others, i + 1, folders)
  ELSE FolderLoop(others, i + 1,
         MapPush(folders, Split(others[i].path, "/")[2], others[i]))

RECURSIVE EmitLoop(_, _, _)
\* the third loop: one folder archive per Map entry, in the Map's order
EmitLoop(folders, k, arch) ==
  IF k > Len(folders) THEN arch
  ELSE EmitLoop(folders, k + 1,
         Append(arch, Archive(folders[k].key, SumSizes(folders[k].files, 1),
                              "folder", folders[k].files)))

Preprocess(fs) ==
  LET c == ClassifyLoop(fs, 1, <<>>, <<>>)
  IN EmitLoop(FolderLoop(c.others, 1, <<>>), 1, c.archives)

----------------------------------------------------------------------------
\* The three readers.

Info(name, size, exts, fileCount, folderCount) ==
  [name |-> name, size |-> size, exts |-> exts,
   fileCount |-> fileCount, folderCount |-> folderCount]

NoInfo == Info(<<>>, 0, <<>>, 0, 0)

\* `const ext = s.split('.').pop(); if (ext) extensions.add(ext)`
AddExt(extensions, s) ==
  LET e == Pop(Split(s, "."))
  IN IF Truthy(e) THEN SetAdd(extensions, e) ELSE extensions

RECURSIVE ZipLoop(_, _, _)
\* readZipfile's loop over the paths; acc is (fileCount, folderCount, extensions)
ZipLoop(paths, i, acc) ==
  IF i > Len(paths) THEN acc
  ELSE IF EndsWith(paths[i], <<"/">>)
    THEN ZipLoop(paths, i + 1, [acc EXCEPT !.folderCount = @ + 1])
  ELSE ZipLoop(paths, i + 1,
         [acc EXCEPT !.fileCount = @ + 1, !.exts = AddExt(@, paths[i])])

ReadZipfile(archive, paths) ==
  LET r == ZipLoop(paths, 1, NoInfo)
  IN Info(archive.name, archive.size, r.exts, r.fileCount, r.folderCount)

RECURSIVE RarLoop(_, _, _)
\* readRarFile's loop over the file headers
RarLoop(hs, i, acc) ==
  IF i > Len(hs) THEN acc
  ELSE IF hs[i].directory
    THEN RarLoop(hs, i + 1, [acc EXCEPT !.folderCount = @ + 1])
  ELSE RarLoop(hs, i + 1,
         [acc EXCEPT !.fileCount = @ + 1, !.exts = AddExt(@, hs[i].name)])

ReadRarFile(archive, hs) ==
  LET r == RarLoop(hs, 1, NoInfo)
  IN Info(archive.name, archive.size, r.exts, r.fileCount, r.folderCount)

\* one Set of names for all depths
TreeAddAnyDepth(tree, depth, name) ==
  IF 2 \in DOMAIN tree
  THEN [tree EXCEPT ![2] = @ \cup {name}]
  ELSE [d \in {2} |-> {name}]

\* folderTree.get(depth)?.add(name), creating the depth's Set when absent
TreeAdd(tree, depth, name) ==
  IF depth \in DOMAIN tree
  THEN [tree EXCEPT ![depth] = @ \cup {name}]
  ELSE [d \in DOMAIN tree \cup {depth} |->
          IF d = depth THEN {name} ELSE tree[d]]

RECURSIVE DepthLoop(_, _, _)
\* `for (depth = 2; depth < paths.length - 1; depth++)`; paths[depth] is the
\* (depth + 1)-th element of the sequence
DepthLoop(paths, depth, tree) ==
  IF depth < Len(paths) - 1
  THEN DepthLoop(paths, depth + 1, TreeAdd(tree, depth, paths[depth + 1]))
  ELSE tree

\* one iteration's folder part: `if (paths.length > 3) { for ... }`
RegisterFolders(path, tree) ==
  LET paths == Split(path, "/")
  IN IF Len(paths) > 3 THEN DepthLoop(paths, 2, tree) ELSE tree

RECURSIVE FolderFilesLoop(_, _, _, _)
\* readFolder's loop over the archive's files
FolderFilesLoop(fs, i, tree, extensions) ==
  IF i > Len(fs) THEN [tree |-> tree, exts |-> extensions]
  ELSE FolderFilesLoop(fs, i + 1, RegisterFolders(fs[i].path, tree),
                       AddExt(extensions, fs[i].name))

RECURSIVE TreeCount(_, _)
\* `for (let folders of folderTree.values()) folderCount += folders.size`
TreeCount(tree, depths) ==
  IF depths = {} THEN 0
  ELSE LET d == CHOOSE x \in depths : TRUE
       IN Cardinality(tree[d]) + TreeCount(tree, depths \ {d})

ReadFolder(archive) ==
  LET r == FolderFilesLoop(archive.files, 1, << >>, <<>>)
  IN Info(archive.name, archive.size, r.exts, Len(archive.files),
          TreeCount(r.tree, DOMAIN r.tree))

----------------------------------------------------------------------------
\* The grouping pipeline: a batch is dropped, preprocess groups it, and each
\* archive is read (the decoders' listings are inputs).

\* the dropped File objects are distinct objects: id is the object's identity
Batches ==
  UNION { { [i \in 1..n |-> [id |-> i, name |-> f[i].name, size |-> f[i].size,
                             hasPath |-> f[i].hasPath, path |-> f[i].path]] :
            f \in [1..n -> SampleFiles] } : n \in 0..MaxFiles }

PipeIdle ==
  /\ files = <<>>
  /\ stage = "off"
  /\ archives = <<>>
  /\ opened = {}
  /\ listings = <<>>
  /\ infos = <<>>

DoPreprocess ==
  /\ stage = "input"
  /\ stage' = "grouped"
  /\ archives' = Preprocess(files)
  /\ opened' = {}
  /\ listings' = [i \in 1..Len(archives') |-> <<>>]
  /\ infos' = [i \in 1..Len(archives') |-> NoInfo]
  /\ UNCHANGED files

OpenZip(i) ==
  /\ stage = "grouped"
  /\ i \in (1..Len(archives)) \ opened
  /\ archives[i].type = "zip"
  /\ \E paths \in ZipIndexes :
       /\ listings' = [listings EXCEPT ![i] = paths]
       /\ infos' = [infos EXCEPT ![i] = ReadZipfile(archives[i], paths)]
  /\ opened' = opened \cup {i}
  /\ UNCHANGED <<files, stage, archives>>

OpenRar(i) ==
  /\ stage = "grouped"
  /\ i \in (1..Len(archives)) \ opened
  /\ archives[i].type = "rar"
  /\ \E hs \in RarLists :
       /\ listings' = [listings EXCEPT ![i] = hs]
       /\ infos' = [infos EXCEPT ![i] = ReadRarFile(archives[i], hs)]
  /\ opened' = opened \cup {i}
  /\ UNCHANGED <<files, stage, archives>>

OpenFolder(i) ==
  /\ stage = "grouped"
  /\ i \in (1..Len(archives)) \ opened
  /\ archives[i].type \notin {"zip", "rar"}
  /\ infos' = [infos EXCEPT ![i] = ReadFolder(archives[i])]
  /\ opened' = opened \cup {i}
  /\ UNCHANGED <<files, stage, archives, listings>>

----------------------------------------------------------------------------
\* MoelistFormatter.getSizeType

\* the upper bounds of the tiers, in megabytes
LimitXXS == 20
LimitXS == 50
LimitS == 100
LimitM == 175
LimitL == 300
LimitXL == 500
LimitXXL == 800

\* `<=` in place of `<`
SizeMBLessOrEqual(size, limit) == size <= limit * 1024 * 1024

\* `size / 1024 / 1024 < limit`: dividing by a power of two is exact in a
\* double, so the comparison is the one on the integers below
SizeMBLess(size, limit) == size < limit * 1024 * 1024

GetSizeType(size) ==
  IF SizeMBLess(size, LimitXXS) THEN "XXS"
  ELSE IF SizeMBLess(size, LimitXS) THEN "XS"
  ELSE IF SizeMBLess(size, LimitS) THEN "S"
  ELSE IF SizeMBLess(size, LimitM) THEN "M"
  ELSE IF SizeMBLess(size, LimitL) THEN "L"
  ELSE IF SizeMBLess(size, LimitXL) THEN "XL"
  ELSE IF SizeMBLess(size, LimitXXL) THEN "XXL"
  ELSE "XXXL"

Limits == {LimitXXS, LimitXS, LimitS, LimitM, LimitL, LimitXL, LimitXXL}

\* byte counts at and around every threshold, and the smallest ones
SampleSizes ==
  (0..Delta) \cup
  { l * 1024 * 1024 + d : l \in Limits, d \in (0 - Delta)..Delta }

SizeIdle ==
  /\ sizeA = 0
  /\ sizeB = 0
  /\ tierA = "none"
  /\ tierB = "none"

ClassifyA ==
  /\ tierA = "none"
  /\ tierA' = GetSizeType(sizeA)
  /\ UNCHANGED <<sizeA, sizeB, tierB>>

ClassifyB ==
  /\ tierB = "none"
  /\ tierB' = GetSizeType(sizeB)
  /\ UNCHANGED <<sizeA, sizeB, tierA>>

----------------------------------------------------------------------------
\* The asynchronous side of ArchiveInfoReader: the constructor's un-awaited
\* init, the FileReader of _loadBuffer and the two decoders.
\*
\* wasmBinary is 0 while ArchiveInfoReader._wasmBinary is unset, and after a
\* write the number of the init call whose ArrayBuffer it holds.  inits[k] is
\* the state of the k-th call of init.  ext[e].pc is where the e-th open is:
\*   idle        not called yet
\*   zipLoading  awaiting jszip.loadAsync
\*   reading     awaiting _loadBuffer (the FileReader is reading)
\*   readError   the FileReader fired `error`; _loadBuffer's promise has no
\*               listener for it and stays pending
\*   decoding    awaiting createExtractorFromData, called with ext[e].arg
\*   resolved    the promise of open resolved with ext[e].info
\*   rejected    the promise of open rejected

FZip == File(<<"a", ".", "z", "i", "p">>, 1500, FALSE, <<>>)
FRar == File(<<"b", ".", "r", "a", "r">>, 700, FALSE, <<>>)
FDir == File(<<"R", "M">>, 5, TRUE, <<"/", "a", "/", "s", "/", "s", "/", "R", "M">>)

\* the archives open is called on: what preprocess returns for a drop
SampleArchives == Range(Preprocess(<<FZip, FRar, FDir>>))

Opens == 1..MaxOpens

Ext(pc, archive, arg, info) ==
  [pc |-> pc, archive |-> archive, arg |-> arg, info |-> info]

NoArchive == Archive(<<>>, 0, "none", <<>>)

AsyncIdle ==
  /\ wasmBinary = 0
  /\ inits = <<>>
  /\ wasmWrites = 0
  /\ ext = [e \in Opens |-> Ext("idle", NoArchive, 0, NoInfo)]

\* the constructor: `if (!ArchiveInfoReader._wasmBinary) ArchiveInfoReader.init()`
\* init runs up to its first await, the fetch
Constructor ==
  inits' = IF wasmBinary = 0 THEN Append(inits, "fetching") ELSE inits

\* ArchiveInfoReader.open(archive): the constructor, then readArchiveInfo up to
\* the reader's first await; readFolder has none and resolves
Open(e) ==
  /\ ext[e].pc = "idle"
  /\ \A d \in 1..(e - 1) : ext[d].pc # "idle"
  /\ Constructor
  /\ \E a \in SampleArchives :
       ext' = [ext EXCEPT ![e] =
                 IF a.type = "zip" THEN Ext("zipLoading", a, 0, NoInfo)
                 ELSE IF a.type = "rar" THEN Ext("reading", a, 0, NoInfo)
                 ELSE Ext("resolved", a, 0, ReadFolder(a))]
  /\ UNCHANGED <<wasmBinary, wasmWrites>>

\* init after its awaits: `ArchiveInfoReader._wasmBinary = wasmBinary`
FetchDone(k) ==
  /\ k \in 1..Len(inits)
  /\ inits[k] = "fetching"
  /\ inits' = [inits EXCEPT ![k] = "done"]
  /\ wasmBinary' = k
  /\ wasmWrites' = wasmWrites + 1
  /\ UNCHANGED ext

\* fetch or arrayBuffer rejects: init's promise rejects, nothing is written
FetchFail(k) ==
  /\ k \in 1..Len(inits)
  /\ inits[k] = "fetching"
  /\ inits' = [inits EXCEPT ![k] = "failed"]
  /\ UNCHANGED <<wasmBinary, wasmWrites, ext>>

\* jszip.loadAsync resolves: the rest of readZipfile
ZipLoaded(e) ==
  /\ ext[e].pc = "zipLoading"
  /\ \E paths \in ZipIndexes :
       ext' = [ext EXCEPT ![e].pc = "resolved",
                          ![e].info = ReadZipfile(ext[e].archive, paths)]
  /\ UNCHANGED <<wasmBinary, inits, wasmWrites>>

\* jszip.loadAsync rejects (corrupt data)
ZipFailed(e) ==
  /\ ext[e].pc = "zipLoading"
  /\ ext' = [ext EXCEPT ![e].pc = "rejected"]
  /\ UNCHANGED <<wasmBinary, inits, wasmWrites>>

\* the FileReader fires `load`: _loadBuffer resolves and readRarFile calls
\* createExtractorFromData({ wasmBinary: ArchiveInfoReader._wasmBinary, data })
BufferLoaded(e) ==
  /\ ext[e].pc = "reading"
  /\ ext' = [ext EXCEPT ![e].pc = "decoding", ![e].arg = wasmBinary]
  /\ UNCHANGED <<wasmBinary, inits, wasmWrites>>

\* the FileReader fires `error`: only `load` has a listener
BufferError(e) ==
  /\ ext[e].pc = "reading"
  /\ ext' = [ext EXCEPT ![e].pc = "readError"]
  /\ UNCHANGED <<wasmBinary, inits, wasmWrites>>

\* createExtractorFromData resolves: getFileList and the rest of readRarFile
ExtractorReady(e) ==
  /\ ext[e].pc = "decoding"
  /\ \E hs \in RarLists :
       ext' = [ext EXCEPT ![e].pc = "resolved",
                          ![e].info = ReadRarFile(ext[e].archive, hs)]
  /\ UNCHANGED <<wasmBinary, inits, wasmWrites>>

\* createExtractorFromData rejects, or getFileList throws
ExtractorFailed(e) ==
  /\ ext[e].pc = "decoding"
  /\ ext' = [ext EXCEPT ![e].pc = "rejected"]
  /\ UNCHANGED <<wasmBinary, inits, wasmWrites>>

----------------------------------------------------------------------------
\* MoelistFormatter.getPreviewStyle, getCodeStyle and getTableStyle.
\*
\* A string is a sequence of elements, each a character or a literal chunk of
\* the source; its length is the sum of the elements' lengths.

RECURSIVE Length(_)
\* s.length
Length(s) == IF s = <<>> THEN 0 ELSE Len(Head(s)) + Length(Tail(s))

RECURSIVE Spaces(_)
Spaces(n) == IF n <= 0 THEN <<>> ELSE <<" ">> \o Spaces(n - 1)

\* s.padStart(n) and s.padEnd(n)
PadStart(s, n) == Spaces(n - Length(s)) \o s
PadEnd(s, n) == s \o Spaces(n - Length(s))

DigitChar(d) == <<"0", "1", "2", "3", "4", "5", "6", "7", "8", "9">>[d + 1]

RECURSIVE ToStr(_)
\* `${n}` for a non-negative integer
ToStr(n) ==
  IF n < 10 THEN <<DigitChar(n)>>
  ELSE ToStr(n \div 10) \o <<DigitChar(n % 10)>>

\* the three digits of a group below the first
Group3(n) ==
  <<DigitChar(n \div 100), DigitChar((n \div 10) % 10), DigitChar(n % 10)>>

RECURSIVE ToLocaleString(_, _)
\* n.toLocaleString() for a non-negative integer: groups of three digits,
\* separated by the locale's grouping separator
ToLocaleString(n, sep) ==
  IF n < 1000 THEN ToStr(n)
  ELSE ToLocaleString(n \div 1000, sep) \o <<sep>> \o Group3(n % 1000)

RECURSIVE Join(_, _)
\* array.join(sep)
Join(a, sep) ==
  IF a = <<>> THEN <<>>
  ELSE IF Len(a) = 1 THEN a[1]
  ELSE a[1] \o sep \o Join(Tail(a), sep)

\* `const version`
Version == <<"moelist v0.0.1">>

PreviewHeader ==
  <<"        Size Type Summary                  Extensions   Name">>
PreviewDivider ==
  <<"------------ ---- ------------------------ ------------ ------------------------">>

\* `${fileCount} files, ${folderCount} folders`
Summary(fileCount, folderCount) ==
  ToStr(fileCount) \o <<" files, ">> \o ToStr(folderCount) \o <<" folders">>

\* the line getPreviewStyle pushes for one info
PreviewLine(info, sep) ==
  PadStart(ToLocaleString(info.size, sep), 12) \o <<" ">>
    \o PadStart(<<GetSizeType(info.size)>>, 4) \o <<" ">>
    \o PadEnd(Summary(info.fileCount, info.folderCount), 24) \o <<" ">>
    \o PadEnd(Join(info.exts, <<", ">>), 12) \o <<" ">>
    \o info.name

\* the running state of a formatter's loop
Acc(lines, totalSize, totalFiles, totalFolders) ==
  [lines |-> lines, totalSize |-> totalSize,
   totalFiles |-> totalFiles, totalFolders |-> totalFolders]

\* `totalFolders += fileCount`
AddTotalsFilesTwice(acc, info, line) ==
  Acc(Append(acc.lines, line), acc.totalSize + info.size,
      acc.totalFiles + info.fileCount, acc.totalFolders + info.fileCount)

\* one iteration's three `total... +=`
AddTotals(acc, info, line) ==
  Acc(Append(acc.lines, line), acc.totalSize + info.size,
      acc.totalFiles + info.fileCount, acc.totalFolders + info.folderCount)

RECURSIVE PreviewLoopBackwards(_, _, _, _)
\* a loop that takes the infos from the last to the first
PreviewLoopBackwards(is, i, acc, sep) ==
  IF i > Len(is) THEN acc
  ELSE PreviewLoopBackwards(is, i + 1,
         AddTotals(acc, is[Len(is) + 1 - i], PreviewLine(is[Len(is) + 1 - i], sep)), sep)

RECURSIVE PreviewLoop(_, _, _, _)
\* getPreviewStyle's `for (let info of infos)`
PreviewLoop(is, i, acc, sep) ==
  IF i > Len(is) THEN acc
  ELSE PreviewLoop(is, i + 1, AddTotals(acc, is[i], PreviewLine(is[i], sep)), sep)

\* the last line getPreviewStyle pushes
PreviewTotals(acc, sep) ==
  PadStart(ToLocaleString(acc.totalSize, sep), 12) \o <<"      ">>
    \o ToStr(acc.totalFiles) \o <<" files, ">>
    \o ToStr(acc.totalFolders) \o <<" folders">>

GetPreviewStyle(is, sep) ==
  IF Len(is) = 0 THEN <<>>
  ELSE LET acc == PreviewLoop(is, 1, Acc(<<PreviewHeader, PreviewDivider>>, 0, 0, 0), sep)
       IN Join(acc.lines \o <<PreviewDivider, PreviewTotals(acc, sep)>>, <<"\n">>)

CodeQuoteStart == <<"[quote][font=courier new, courier, monospace]">>
CodeQuoteEnd == <<"[/font][/quote]">>

GetCodeStyle(is, sep) ==
  IF Len(is) = 0 THEN <<>>
  ELSE Join(<<CodeQuoteStart, Version, GetPreviewStyle(is, sep), CodeQuoteEnd>>,
            <<"\n">>)

TableQuoteStart == <<"[quote]">>
TableQuoteEnd == <<"[/quote]">>
\* the column titles are Chinese in the source (archive, size, size type,
\* files, folders, extensions); they are written here by their meaning
TableStart ==
  <<"[table=100%][tr][td]ARCHIVE[/td][td][align=right]SIZE[/align][/td][td][align=right]SIZETYPE[/align][/td][td][align=right]FILES[/align][/td][td][align=right]FOLDERS[/align][/td][td]EXTENSIONS[/td][/tr]">>

\* the row getTableStyle pushes for one info
TableLine(info, sep) ==
  <<"[tr][td]">> \o info.name \o <<"[/td]">>
    \o <<"[td][align=right]">> \o ToLocaleString(info.size, sep) \o <<"[/align][/td]">>
    \o <<"[td][align=right]">> \o <<GetSizeType(info.size)>> \o <<"[/align][/td]">>
    \o <<"[td][align=right]">> \o ToStr(info.fileCount) \o <<"[/align][/td]">>
    \o <<"[td][align=right]">> \o ToStr(info.folderCount) \o <<"[/align][/td]">>
    \o <<"[td]">> \o Join(info.exts, <<", ">>) \o <<"[/td][/tr]">>

RECURSIVE TableLoop(_, _, _, _)
\* getTableStyle's `for (let info of infos)`
TableLoop(is, i, acc, sep) ==
  IF i > Len(is) THEN acc
  ELSE TableLoop(is, i + 1, AddTotals(acc, is[i], TableLine(is[i], sep)), sep)

\* `counter`, the totals row (its first cell is the Chinese for "total")
TableCounter(acc, sep) ==
  <<"[tr][td]TOTAL[/td]">>
    \o <<"[td][align=right]">> \o ToLocaleString(acc.totalSize, sep) \o <<"[/align][/td]">>
    \o <<"[td][/td]">>
    \o <<"[td][align=right]">> \o ToStr(acc.totalFiles) \o <<"[/align][/td]">>
    \o <<"[td][align=right]">> \o ToStr(acc.totalFolders) \o <<"[/align][/td]">>
    \o <<"[td][/td][/tr]">> \o <<"[/table]">>

GetTableStyle(is, sep) ==
  IF Len(is) = 0 THEN <<>>
  ELSE LET acc == TableLoop(is, 1, Acc(<<TableQuoteStart, Version, TableStart>>, 0, 0, 0), sep)
       IN Join(acc.lines \o <<TableCounter(acc, sep), TableQuoteEnd>>, <<"\n">>)

\* the ArchiveInfo records the formatters are called on
SampleInfos ==
  { Info(<<"a", ".", "z", "i", "p">>, 1500, << <<"m", "d">> >>, 1, 1),
    Info(<<"b">>, 20971520, << <<"m", "d">>, <<"R", "M">> >>, 12, 3),
    Info(<<"c">>, 0, <<>>, 0, 0),
    Info(<<"d", ".", "r", "a", "r">>, 999, << <<"t">> >>, 3, 0),
    Info(<<"e">>, 1234567, << <<"j", "p", "g">> >>, 100, 9) }

\* the grouping separators of the locale toLocaleString runs under
GroupSeps == {",", "."}

InfoLists == UNION { [1..n -> SampleInfos] : n \in 0..MaxInfos }

RenderIdle ==
  /\ rinfos = <<>>
  /\ groupSep = ","
  /\ style = "off"
  /\ out = <<>>

PreviewStyle ==
  /\ style = "none"
  /\ style' = "preview"
  /\ out' = GetPreviewStyle(rinfos, groupSep)
  /\ UNCHANGED <<rinfos, groupSep>>

CodeStyle ==
  /\ style = "none"
  /\ style' = "code"
  /\ out' = GetCodeStyle(rinfos, groupSep)
  /\ UNCHANGED <<rinfos, groupSep>>

TableStyle ==
  /\ style = "none"
  /\ style' = "table"
  /\ out' = GetTableStyle(rinfos, groupSep)
  /\ UNCHANGED <<rinfos, groupSep>>

----------------------------------------------------------------------------
\* The specifications.

\* the grouping pipeline
Init ==
  /\ files \in Batches
  /\ stage = "input"
  /\ archives = <<>>
  /\ opened = {}
  /\ listings = <<>>
  /\ infos = <<>>
  /\ SizeIdle /\ RenderIdle /\ AsyncIdle

Next ==
  \/ DoPreprocess /\ UNCHANGED <<sizeVars, renderVars, asyncVars>>
  \/ \E i \in 1..MaxFiles : OpenZip(i) /\ UNCHANGED <<sizeVars, renderVars, asyncVars>>
  \/ \E i \in 1..MaxFiles : OpenRar(i) /\ UNCHANGED <<sizeVars, renderVars, asyncVars>>
  \/ \E i \in 1..MaxFiles : OpenFolder(i) /\ UNCHANGED <<sizeVars, renderVars, asyncVars>>

Spec == Init /\ [][Next]_vars

\* getSizeType
InitSize ==
  /\ sizeA \in SampleSizes
  /\ sizeB \in SampleSizes
  /\ tierA = "none"
  /\ tierB = "none"
  /\ PipeIdle /\ RenderIdle /\ AsyncIdle

NextSize ==
  \/ ClassifyA /\ UNCHANGED <<pipeVars, renderVars, asyncVars>>
  \/ ClassifyB /\ UNCHANGED <<pipeVars, renderVars, asyncVars>>

SpecSize == InitSize /\ [][NextSize]_vars

\* the formatters
InitRender ==
  /\ rinfos \in InfoLists
  /\ groupSep \in GroupSeps
  /\ style = "none"
  /\ out = <<>>
  /\ PipeIdle /\ SizeIdle /\ AsyncIdle

NextRender ==
  \/ PreviewStyle /\ UNCHANGED <<pipeVars, sizeVars, asyncVars>>
  \/ CodeStyle /\ UNCHANGED <<pipeVars, sizeVars, asyncVars>>
  \/ TableStyle /\ UNCHANGED <<pipeVars, sizeVars, asyncVars>>

SpecRender == InitRender /\ [][NextRender]_vars

\* the asynchronous open
InitAsync == PipeIdle /\ SizeIdle /\ RenderIdle /\ AsyncIdle

\* the completion of what the e-th open awaits
Completes(e) ==
  \/ ZipLoaded(e) \/ ZipFailed(e)
  \/ BufferLoaded(e) \/ BufferError(e)
  \/ ExtractorReady(e) \/ ExtractorFailed(e)

\* the completion of the k-th init's fetch
FetchCompletes(k) == FetchDone(k) \/ FetchFail(k)

NextAsync ==
  \/ \E e \in Opens : Open(e) /\ UNCHANGED <<pipeVars, sizeVars, renderVars>>
  \/ \E k \in Opens : FetchDone(k) /\ UNCHANGED <<pipeVars, sizeVars, renderVars>>
  \/ \E k \in Opens : FetchFail(k) /\ UNCHANGED <<pipeVars, sizeVars, renderVars>>
  \/ \E e \in Opens : ZipLoaded(e) /\ UNCHANGED <<pipeVars, sizeVars, renderVars>>
  \/ \E e \in Opens : ZipFailed(e) /\ UNCHANGED <<pipeVars, sizeVars, renderVars>>
  \/ \E e \in Opens : BufferLoaded(e) /\ UNCHANGED <<pipeVars, sizeVars, renderVars>>
  \/ \E e \in Opens : BufferError(e) /\ UNCHANGED <<pipeVars, sizeVars, renderVars>>
  \/ \E e \in Opens : ExtractorReady(e) /\ UNCHANGED <<pipeVars, sizeVars, renderVars>>
  \/ \E e \in Opens : ExtractorFailed(e) /\ UNCHANGED <<pipeVars, sizeVars, renderVars>>

\* every pending fetch, file read and decoder call completes: the event loop
\* delivers each completion
SpecAsync ==
  /\ InitAsync
  /\ [][NextAsync]_vars
  /\ \A e \in Opens : WF_vars(Completes(e) /\ UNCHANGED <<pipeVars, sizeVars, renderVars>>)
  /\ \A k \in Opens : WF_vars(FetchCompletes(k) /\ UNCHANGED <<pipeVars, sizeVars, renderVars>>)

----------------------------------------------------------------------------
\* Vocabulary of the properties.

\* the entry is a zip or rar by name, or its path starts with '/'
Eligible(f) ==
  \/ EndsWith(f.name, ZipSuffix)
  \/ EndsWith(f.name, RarSuffix)
  \/ f.hasPath /\ Len(f.path) > 0 /\ f.path[1] = "/"

\* the entry is grouped into a folder archive
Grouped(f) ==
  /\ ~EndsWith(f.name, ZipSuffix)
  /\ ~EndsWith(f.name, RarSuffix)
  /\ f.hasPath /\ Len(f.path) > 0 /\ f.path[1] = "/"

\* the places (archive, position) where the input entry with identity id is
Places(id) ==
  { <<k, j>> \in (1..Len(archives)) \X (1..MaxFiles + 1) :
      j <= Len(archives[k].files) /\ archives[k].files[j].id = id }

\* the text between the leading '/' and the next '/' (or the end)
FirstSegment(path) ==
  LET stops == { j \in 2..Len(path) : path[j] = "/" }
      stop == IF stops = {} THEN Len(path) + 1
              ELSE CHOOSE j \in stops : \A h \in stops : j <= h
  IN SubSeq(path, 2, stop - 1)

\* the input positions grouped under the segment
MembersOf(seg) ==
  { i \in 1..Len(files) : Grouped(files[i]) /\ FirstSegment(files[i].path) = seg }

Least(S) == CHOOSE i \in S : \A h \in S : i <= h

RECURSIVE SizeOver(_)
SizeOver(S) ==
  IF S = {} THEN 0 ELSE files[Least(S)].size + SizeOver(S \ {Least(S)})

IsFolderArchive(a) == a.type = "folder"
FolderArchives == SelectSeq(archives, IsFolderArchive)

\* the ids of an archive's files, in the archive's order
Ids(a) == [j \in 1..Len(a.files) |-> a.files[j].id]

Increasing(ids) == \A j \in 1..Len(ids), h \in 1..Len(ids) : j < h => ids[j] < ids[h]

HasDot(s) == \E j \in 1..Len(s) : s[j] = "."

\* the text after the final '.'
AfterLastDot(s) ==
  LET last == CHOOSE j \in 1..Len(s) :
                s[j] = "." /\ \A h \in (j + 1)..Len(s) : s[h] # "."
  IN SubSeq(s, last + 1, Len(s))

\* the names of the non-directory members the i-th archive was read from
FileMembers(i) ==
  IF archives[i].type = "zip"
    THEN { p \in Range(listings[i]) : p = <<>> \/ p[Len(p)] # "/" }
  ELSE IF archives[i].type = "rar"
    THEN { h.name : h \in { x \in Range(listings[i]) : ~x.directory } }
  ELSE { f.name : f \in Range(archives[i].files) }

\* the (depth, name) pairs of a folder archive's member paths
DepthNames(a) ==
  UNION { { <<depth, Split(f.path, "/")[depth + 1]>> :
              depth \in { d \in 2..Len(f.path) : d < Len(Split(f.path, "/")) - 1 } } :
          f \in Range(a.files) }

Tiers == <<"XXS", "XS", "S", "M", "L", "XL", "XXL", "XXXL">>
TierRank(t) == CHOOSE r \in 1..Len(Tiers) : Tiers[r] = t

\* the lines of the rendered text
OutLines == Split(out, "\n")

\* the totals line: the last line of the preview, the line before the closing
\* quote in the other two styles
TotalsLine ==
  IF style = "preview" THEN OutLines[Len(OutLines)]
  ELSE OutLines[Len(OutLines) - 1]

Digits == { DigitChar(d) : d \in 0..9 }
DigitValue(c) == CHOOSE d \in 0..9 : DigitChar(d) = c

RECURSIVE NumberRuns(_, _, _, _)
\* the maximal runs of digits and grouping separators of a line
NumberRuns(line, i, cur, acc) ==
  IF i > Len(line) THEN (IF cur = <<>> THEN acc ELSE Append(acc, cur))
  ELSE IF line[i] \in Digits \cup GroupSeps
    THEN NumberRuns(line, i + 1, Append(cur, line[i]), acc)
  ELSE NumberRuns(line, i + 1, <<>>, IF cur = <<>> THEN acc ELSE Append(acc, cur))

RECURSIVE NumberOf(_, _)
\* the number a run of digits and grouping separators reads as
NumberOf(run, n) ==
  IF run = <<>> THEN n
  ELSE IF Head(run) \in Digits THEN NumberOf(Tail(run), 10 * n + DigitValue(Head(run)))
  ELSE NumberOf(Tail(run), n)

RECURSIVE TotalOf(_, _)
\* the sum of a field over the first n records given to the formatter
TotalOf(field, n) ==
  IF n = 0 THEN 0 ELSE rinfos[n][field] + TotalOf(field, n - 1)

Rendered == style \in {"preview", "code", "table"}

\* the lines before the first row, and after the last row
RowOffset == IF style = "preview" THEN 2 ELSE IF style = "code" THEN 4 ELSE 3
RowTrail == IF style = "preview" THEN 2 ELSE IF style = "code" THEN 3 ELSE 2

RowOf(info) ==
  IF style = "table" THEN TableLine(info, groupSep) ELSE PreviewLine(info, groupSep)

Settled(e) == ext[e].pc \in {"resolved", "rejected"}

----------------------------------------------------------------------------
\* The properties.

\* C1: preprocess is a partition of its input: an entry whose name ends in
\* .zip or .rar, or whose path starts with '/', is in the files of exactly one
\* returned Archive, exactly once; every other entry is in none; and the
\* archives hold input entries only.
C1_Partition ==
  stage = "grouped" =>
    /\ \A i \in 1..Len(files) :
         Cardinality(Places(i)) = IF Eligible(files[i]) THEN 1 ELSE 0
    /\ \A k \in 1..Len(archives) : \A j \in 1..Len(archives[k].files) :
         /\ archives[k].files[j].id \in 1..Len(files)
         /\ archives[k].files[j] = files[archives[k].files[j].id]

\* a batch of a zip inside a dropped folder, a loose file and a folder member
C1_Witness ==
  /\ stage = "grouped"
  /\ Len(files) = 3
  /\ \E i, j, k \in 1..3 :
       /\ EndsWith(files[i].name, ZipSuffix) /\ StartsWith(files[i].path, <<"/">>)
       /\ ~Eligible(files[j])
       /\ Grouped(files[k])

\* C2: for the non-zip, non-rar entries whose path starts with '/', preprocess
\* emits exactly one folder Archive per distinct first path segment, in the
\* order the segments are first seen; each one's size is the sum of its
\* members' sizes and its files are its members in input order.
C2_FolderArchives ==
  stage = "grouped" =>
    LET fa == FolderArchives
        segs == { FirstSegment(files[i].path) :
                    i \in { h \in 1..Len(files) : Grouped(files[h]) } }
    IN /\ Len(fa) = Cardinality(segs)
       /\ { fa[k].name : k \in 1..Len(fa) } = segs
       /\ \A k \in 1..Len(fa), l \in 1..Len(fa) :
            k < l => Least(MembersOf(fa[k].name)) < Least(MembersOf(fa[l].name))
       /\ \A k \in 1..Len(fa) :
            /\ Range(Ids(fa[k])) = MembersOf(fa[k].name)
            /\ Len(fa[k].files) = Cardinality(MembersOf(fa[k].name))
            /\ Increasing(Ids(fa[k]))
            /\ fa[k].size = SizeOver(MembersOf(fa[k].name))
       /\ \A k \in 1..Len(archives) :
            archives[k].type \in {"zip", "rar", "folder"}

\* two folders, the first seen holding the first and the third entry
C2_Witness ==
  /\ stage = "grouped"
  /\ Len(FolderArchives) = 2
  /\ Ids(FolderArchives[1]) = <<1, 3>>
  /\ Ids(FolderArchives[2]) = <<2>>
  /\ FolderArchives[1].size = files[1].size + files[3].size

\* C3: in the three readers a member whose path or name has no '.' contributes
\* no extension: every string of exts is the text after the final '.' of some
\* non-directory member that has a '.'.
C3_ExtsFromDots ==
  \A i \in opened : \A x \in Range(infos[i].exts) :
    \E m \in FileMembers(i) : HasDot(m) /\ x = AfterLastDot(m)

\* C4: readFolder returns folderCount = the number of distinct (depth, name)
\* pairs over every member path and every depth with
\* 2 <= depth < (number of segments - 1), and fileCount = the number of members.
C4_FolderCount ==
  \A i \in opened :
    archives[i].type = "folder" =>
      /\ infos[i].folderCount = Cardinality(DepthNames(archives[i]))
      /\ infos[i].fileCount = Len(archives[i].files)
      /\ infos[i].name = archives[i].name
      /\ infos[i].size = archives[i].size

\* a folder whose members reach one name at one depth through two files and
\* the same name at a second depth
C4_Witness ==
  \E i \in opened :
    /\ archives[i].type = "folder"
    /\ Len(archives[i].files) >= 2
    /\ infos[i].folderCount = 2
    /\ Cardinality({ p[2] : p \in DepthNames(archives[i]) }) = 1
    /\ \E f, g \in Range(archives[i].files) :
         /\ f.path # g.path
         /\ Split(f.path, "/")[3] = Split(g.path, "/")[3]
         /\ Len(Split(f.path, "/")) > 3 /\ Len(Split(g.path, "/")) > 3

\* C5: getSizeType returns one of the eight tiers, the tier is monotonic
\* non-decreasing in the byte count, and a byte count exactly at a threshold
\* falls in the higher tier (20*1024*1024 is XS, not XXS).
C5_SizeTiers ==
  /\ tierA # "none" => tierA \in Range(Tiers)
  /\ tierB # "none" => tierB \in Range(Tiers)
  /\ (tierA # "none" /\ tierB # "none" /\ sizeA < sizeB) =>
       TierRank(tierA) <= TierRank(tierB)
  /\ (tierA # "none" /\ sizeA = 20 * 1024 * 1024) => tierA = "XS"
  /\ \A r \in 1..(Len(Tiers) - 1) :
       (tierA = Tiers[r] /\ tierB = Tiers[r + 1]) => sizeA < sizeB

\* the two byte counts on either side of the first threshold, both classified
C5_Witness ==
  /\ sizeA = 20 * 1024 * 1024 - 1
  /\ sizeB = 20 * 1024 * 1024
  /\ tierA = "XXS"
  /\ tierB = "XS"

\* C6: for a non-empty list, the total size, file count and folder count of
\* the final summary line or row of each of the three styles equal the sums
\* of the fields over the input records.
C6_Totals ==
  (Rendered /\ Len(rinfos) > 0) =>
    LET runs == NumberRuns(TotalsLine, 1, <<>>, <<>>)
    IN /\ Len(runs) = 3
       /\ NumberOf(runs[1], 0) = TotalOf("size", Len(rinfos))
       /\ NumberOf(runs[2], 0) = TotalOf("fileCount", Len(rinfos))
       /\ NumberOf(runs[3], 0) = TotalOf("folderCount", Len(rinfos))

\* a table of three records whose total size has three groups of digits
C6_Witness ==
  /\ style = "table"
  /\ Len(rinfos) = 3
  /\ TotalOf("size", 3) > 1000000
  /\ TotalOf("folderCount", 3) # TotalOf("fileCount", 3)
  /\ GroupSeps \cap Range(TotalsLine) # {}

\* C7: rendering is order-preserving in the three styles: one row per input
\* ArchiveInfo, between the header and the totals row, the i-th row built
\* from the i-th record.
C7_RowsInOrder ==
  (Rendered /\ Len(rinfos) > 0) =>
    /\ Len(OutLines) = RowOffset + Len(rinfos) + RowTrail
    /\ \A i \in 1..Len(rinfos) : OutLines[RowOffset + i] = RowOf(rinfos[i])
    /\ OutLines[RowOffset] = IF style = "table" THEN TableStart ELSE PreviewDivider
    /\ OutLines[RowOffset + Len(rinfos) + 1] =
         IF style = "table"
         THEN TableCounter(Acc(<<>>, TotalOf("size", Len(rinfos)),
                               TotalOf("fileCount", Len(rinfos)),
                               TotalOf("folderCount", Len(rinfos))), groupSep)
         ELSE PreviewDivider

\* the code style of three records, the first and the last different
C7_Witness ==
  /\ style = "code"
  /\ Len(rinfos) = 3
  /\ rinfos[1] # rinfos[3]
  /\ rinfos[1] # rinfos[2]

\* C8: the payload is loaded once: init's fetch is started at most one time
\* and _wasmBinary is written at most one time.
C8_LoadedOnce ==
  /\ Len(inits) <= 1
  /\ wasmWrites <= 1

\* C9: every extraction started with open eventually settles, resolved with
\* the ArchiveInfo of its archive or rejected.
C9_Settles ==
  /\ \A e \in Opens : (ext[e].pc # "idle") ~> Settled(e)
  /\ [](\A e \in Opens :
          ext[e].pc = "resolved" =>
            /\ ext[e].info.name = ext[e].archive.name
            /\ ext[e].info.size = ext[e].archive.size)

\* C10: whenever readRarFile calls the rar decoder, _wasmBinary has been
\* loaded: the decoder is never called with an unset payload.
C10_PayloadLoaded ==
  \A e \in Opens : ext[e].pc = "decoding" => ext[e].arg # 0

====
